---- MODULE Spec2Model ----
(***************************************************************************)
(* Model of app/StaMain.cc (OpenSTA): the command line scan, the Tcl       *)
(* bootstrap sequence staTclAppInit, the readline loop of staMain and the  *)
(* history file.  Strings that the code inspects character by character    *)
(* (history lines, the history file) are sequences of one-character        *)
(* strings; command line arguments are compared whole and stay strings.    *)
(***************************************************************************)
EXTENDS Naturals, Integers, Sequences, FiniteSets, TLC

VARIABLES
  argv,        \* sta_argv: argv[1] is the program name (C index 0)
  pc,          \* position of the single thread of control in staMain / staTclAppInit
  ended,       \* static bool ended
  exitRan,     \* observer: command_exit has been invoked by some evaluation
  buffer,      \* staMain's buffer: what readline last returned
  status,      \* staMain's status: return code of the last Tcl_Eval of the loop
  history,     \* the readline library's in-memory history list
  histfile,    \* the file .history_sta
  stdin,       \* the input lines readline has not returned yet
  stderr,      \* what has been written to the diagnostic stream
  stdout,      \* what staMain's own code printed to standard output
  prompts,     \* number of times readline("OpenSTA> ") has been called
  trace,       \* observer: the calls made so far, in order
  firstFailed, \* observer: the first bootstrap evaluation that returned non-success
  nproc,          \* what processorCount() reports on this machine
  thread_count,   \* staMain's thread_count
  threads_exists, \* staMain's threads_exists
  engine,         \* observer: the values passed to sta->setThreadCount, in order
  rl_text,        \* the prefix readline passes to extra_command_generator
  list_index,     \* static int list_index of extra_command_generator
  len,            \* static int len of extra_command_generator
  returned,       \* observer: what the generator returned since the last call with state = 0
  beyond,         \* observer: the generator has read extra_commands past its sentinel
  inits,          \* evalTclInit's inits: the fragments ahead of the sentinel
  dpc,            \* position of control inside evalTclInit's decoding
  frag,           \* evalTclInit's e, as an index into inits
  off,            \* evalTclInit's s, as an offset into the fragment
  unencoded       \* evalTclInit's unencoded: the bytes written so far

mainVars == <<argv, pc, ended, exitRan, buffer, status, history, histfile, stdin,
              stderr, stdout, prompts, trace, firstFailed>>

thrVars == <<nproc, thread_count, threads_exists, engine>>

genVars == <<rl_text, list_index, len, returned, beyond>>

decVars == <<inits, dpc, frag, off, unencoded>>

auxVars == <<thrVars, genVars, decVars>>

vars == <<mainVars, auxVars>>

\* ------------------------------------------------------------------ bounds

MaxArgs == 4       \* arguments after the program name
MaxFile == 3       \* characters in the history file at start
MaxLines == 2      \* lines available on standard input
MaxThreadArgs == 2 \* arguments after the program name when -threads is looked for
MaxExtraCalls == 2 \* calls of the generator after it returned null
MaxFragments == 2  \* fragments ahead of the sentinel of inits
MaxSlices == 2     \* 3-character slices in a fragment

\* ------------------------------------------------------------------ strings

NL == "\n"

\* A C pointer to a string is a sequence of length at most one: <<>> is the
\* null pointer, <<s>> points to s.
NULL == <<>>

TCL_OK == "TCL_OK"

TCL_ERROR == "TCL_ERROR"

\* All sequences over S of length at most n.
RECURSIVE SeqsUpTo(_, _)
SeqsUpTo(S, n) ==
  IF n = 0 THEN {<<>>}
  ELSE LET shorter == SeqsUpTo(S, n - 1)
       IN  shorter \cup {Append(s, x) : s \in {t \in shorter : Len(t) = n - 1}, x \in S}

\* ------------------------------------------------------------------ ArgScanner

\* findCmdLineFlag giving up after the first argument ("else return false"
\* inside the loop).
findCmdLineFlag_first_only(args, flag) ==
  Len(args) >= 2 /\ args[2] = flag

\* findCmdLineFlag: scan from C index 1 (TLA+ index 2) for an exact match.
findCmdLineFlag(args, flag) ==
  \E argi \in 2..Len(args) : args[argi] = flag

\* findCmdLineKey taking the last match that has a successor.
findCmdLineKey_last_match(args, key) ==
  LET hits == {argi \in 2..Len(args) : args[argi] = key /\ argi + 1 <= Len(args)}
  IN  IF hits = {} THEN NULL
      ELSE <<args[(CHOOSE argi \in hits : \A other \in hits : argi >= other) + 1]>>

\* findCmdLineKey: the argument after the first match that has a successor.
findCmdLineKey(args, key) ==
  LET hits == {argi \in 2..Len(args) : args[argi] = key /\ argi + 1 <= Len(args)}
  IN  IF hits = {} THEN NULL
      ELSE <<args[(CHOOSE argi \in hits : \A other \in hits : argi <= other) + 1]>>

\* ------------------------------------------------------------------ HistoryStore

\* The file .history_sta when it does not exist.
NoFile == [exists |-> FALSE, data |-> <<>>]

File(data) == [exists |-> TRUE, data |-> data]

\* Index of the first newline of f, or Len(f) when it has none: the end of the
\* record one getline call returns.
RECURSIVE LineEnd(_, _)
LineEnd(f, i) ==
  IF i >= Len(f) THEN Len(f)
  ELSE IF f[i] = NL THEN i
  ELSE LineEnd(f, i + 1)

\* The successive results of getline on a file with contents f: each keeps its
\* newline; a last line without newline is returned as it is.
RECURSIVE getlines(_)
getlines(f) ==
  IF f = <<>> THEN <<>>
  ELSE LET k == LineEnd(f, 1)
       IN  <<SubSeq(f, 1, k)>> \o getlines(SubSeq(f, k + 1, Len(f)))

\* chop without removing anything.
chop_nothing(line) == line

\* line[strlen(line)-1] = 0
chop(line) == SubSeq(line, 1, Len(line) - 1)

add_history(h, line) == Append(h, line)

\* load_lines without the test "line[0] != 0".
RECURSIVE load_lines_keep_empty(_, _)
load_lines_keep_empty(h, lines) ==
  IF lines = <<>> THEN h
  ELSE load_lines_keep_empty(add_history(h, chop(Head(lines))), Tail(lines))

RECURSIVE load_lines(_, _)
load_lines(h, lines) ==
  IF lines = <<>> THEN h
  ELSE LET line == chop(Head(lines))
       IN  load_lines(IF line # <<>> THEN add_history(h, line) ELSE h, Tail(lines))

\* load_history: the history after loading file f into history h.
load_history(h, f) ==
  IF f.exists THEN load_lines(h, getlines(f.data)) ELSE h

\* fprintf(histout, "%s\n", line) for every entry, in order.
RECURSIVE print_lines(_)
print_lines(h) ==
  IF h = <<>> THEN <<>>
  ELSE Head(h) \o <<NL>> \o print_lines(Tail(h))

\* history_list() returns a null pointer when the history holds no entry.
history_list(h) == IF h = <<>> THEN NULL ELSE <<h>>

\* save_history: the file after saving history h over file f.
save_history(h, f) ==
  LET the_list == history_list(h)
  IN  IF the_list # NULL THEN File(print_lines(the_list[1])) ELSE f

\* ------------------------------------------------------------------ scripts

init_filename == "[file join $env(HOME) .sta]"

\* stringPrint(cmd, "source -echo -verbose %s", filename)
sourceCmd(filename) == "source -echo -verbose " \o filename

\* The decoded buffer of tcl_inits, evaluated as one script.
tcl_inits_script == "tcl_inits"

\* What one Tcl_Eval can do to the host: its return code, and whether the
\* script invoked the "exit" command on the way.  The empty script runs no
\* command and returns TCL_OK.
EvalOutcomes(empty) ==
  IF empty
  THEN {[code |-> TCL_OK, exit |-> FALSE]}
  ELSE [code : {TCL_OK, TCL_ERROR}, exit : BOOLEAN]

\* command_exit leaving the flag as it was.
command_exit_no_effect(e) == e

\* command_exit: ended = 1.
command_exit(e) == TRUE

\* ------------------------------------------------------------------ Bootstrapper

\* staTclAppInit_steps with "-f" handled ahead of "-x".
staTclAppInit_steps_f_first ==
  <<"Tcl_Init", "swig_init", "setTclInterp", "evalTclInit", "show_splash",
    "define_sta_cmds", "namespace_import", "init_file", "f_file", "x_cmd">>

\* staTclAppInit_steps with the registrar called after the bundle evaluation.
staTclAppInit_steps_swig_late ==
  <<"Tcl_Init", "setTclInterp", "evalTclInit", "swig_init", "show_splash",
    "define_sta_cmds", "namespace_import", "init_file", "x_cmd", "f_file">>

\* The statements of staTclAppInit in program order.
staTclAppInit_steps ==
  <<"Tcl_Init", "swig_init", "setTclInterp", "evalTclInit", "show_splash",
    "define_sta_cmds", "namespace_import", "init_file", "x_cmd", "f_file">>

\* The statement control reaches after `step` of staTclAppInit; after the last
\* one staTclAppInit returns to staMain, which calls load_history.
After(step) ==
  LET i == CHOOSE k \in 1..Len(staTclAppInit_steps) : staTclAppInit_steps[k] = step
  IN  IF i < Len(staTclAppInit_steps) THEN staTclAppInit_steps[i + 1]
      ELSE "load_history"

\* AfterEval with the early return "if (Tcl_Eval(...) != TCL_OK) return TCL_ERROR".
AfterEval_return_on_error(step, code) ==
  IF code # TCL_OK THEN "load_history" ELSE After(step)

\* Where control goes after a Tcl_Eval statement of staTclAppInit that
\* returned `code`: the code is discarded, the next statement runs.
AfterEval(step, code) == After(step)

\* AfterEvalTclInit without the exit(0).
AfterEvalTclInit_no_exit(code) == After("evalTclInit")

\* Where control goes after evalTclInit's Tcl_Eval returned `code`: exit(0)
\* on a non-success status, else back to staTclAppInit.
AfterEvalTclInit(code) ==
  IF code # TCL_OK THEN "exited" ELSE After("evalTclInit")

Event(step, script) == [step |-> step, script |-> script]

\* A call that evaluates nothing here: it is recorded and control moves on.
Call(step, next) ==
  /\ pc = step
  /\ trace' = Append(trace, Event(step, ""))
  /\ pc' = next
  /\ UNCHANGED <<argv, ended, exitRan, buffer, status, history, histfile, stdin,
                 stderr, stdout, prompts, firstFailed>>
  /\ UNCHANGED auxVars

\* A statement of staTclAppInit whose condition is false: nothing happens.
Skip(step) ==
  /\ pc = step
  /\ pc' = After(step)
  /\ UNCHANGED <<argv, ended, exitRan, buffer, status, history, histfile, stdin,
                 stderr, stdout, prompts, trace, firstFailed>>
  /\ UNCHANGED auxVars

\* Tcl_Eval(interp, script) as a statement of staTclAppInit: the return code
\* is discarded and control moves to the next statement.
BootEval(step, script) ==
  /\ pc = step
  /\ \E out \in EvalOutcomes(script = "") :
       /\ ended' = IF out.exit THEN command_exit(ended) ELSE ended
       /\ exitRan' = (exitRan \/ out.exit)
       /\ firstFailed' = IF out.code # TCL_OK /\ firstFailed = "none"
                         THEN step ELSE firstFailed
       /\ pc' = AfterEval(step, out.code)
  /\ trace' = Append(trace, Event(step, script))
  /\ UNCHANGED <<argv, buffer, status, history, histfile, stdin, stderr, stdout,
                 prompts>>
  /\ UNCHANGED auxVars

\* ------------------------------------------------------------------ thread count

Digits == {"0", "1", "2", "3", "4", "5", "6", "7", "8", "9"}

DigitValue(c) ==
  CASE c = "0" -> 0 [] c = "1" -> 1 [] c = "2" -> 2 [] c = "3" -> 3 [] c = "4" -> 4
    [] c = "5" -> 5 [] c = "6" -> 6 [] c = "7" -> 7 [] c = "8" -> 8 [] c = "9" -> 9

\* The characters of the arguments that can follow -threads.
Spelling(str) ==
  CASE str = "max" -> <<"m", "a", "x">>
    [] str = "7" -> <<"7">>
    [] str = "16" -> <<"1", "6">>
    [] str = "banana" -> <<"b", "a", "n", "a", "n", "a">>
    [] str = "2147483648" -> <<"2", "1", "4", "7", "4", "8", "3", "6", "4", "8">>
    [] str = "-threads" -> <<"-", "t", "h", "r", "e", "a", "d", "s">>

\* stringEqual(thread_arg, "max")
stringEqual(a, b) == a = b

\* isDigits: every character is a decimal digit.
isDigits(str) == \A i \in 1..Len(Spelling(str)) : Spelling(str)[i] \in Digits

INT_MAX == 2147483647

\* The value of the digits d[i..], added to acc, or -1 once it no longer
\* fits an int.
RECURSIVE DecimalFrom(_, _, _)
DecimalFrom(d, i, acc) ==
  IF i > Len(d) THEN acc
  ELSE IF acc > (INT_MAX - DigitValue(d[i])) \div 10 THEN 0 - 1
  ELSE DecimalFrom(d, i + 1, acc * 10 + DigitValue(d[i]))

\* atoi on a string of digits: its value when an int can hold it; otherwise
\* the behaviour is undefined and the result is whatever the C library
\* produces, a saturated or a wrapped value.
atoi(str) ==
  LET v == DecimalFrom(Spelling(str), 1, 0)
  IN  IF v >= 0 THEN {v} ELSE {INT_MAX, 0 - INT_MAX - 1}

\* staMain lines 66-68 and parseThreadsArg.
ParseThreadsArg ==
  /\ pc = "parseThreadsArg"
  /\ LET thread_arg == findCmdLineKey(argv, "-threads")
     IN  IF thread_arg = NULL
         THEN UNCHANGED <<thread_count, threads_exists, stderr>>
         ELSE IF stringEqual(thread_arg[1], "max")
         THEN /\ thread_count' = nproc
              /\ threads_exists' = TRUE
              /\ stderr' = stderr
         ELSE IF isDigits(thread_arg[1])
         THEN /\ thread_count' \in atoi(thread_arg[1])
              /\ threads_exists' = TRUE
              /\ stderr' = stderr
         ELSE /\ stderr' = Append(stderr,
                     [kind |-> "Warning: -threads must be max or a positive integer.",
                      of |-> <<>>])
              /\ UNCHANGED <<thread_count, threads_exists>>
  /\ pc' = "setThreadCount"
  /\ UNCHANGED <<argv, ended, exitRan, buffer, status, history, histfile, stdin,
                 stdout, prompts, trace, firstFailed>>
  /\ UNCHANGED <<nproc, engine, genVars, decVars>>

\* staMain lines 69-70.
SetThreadCount ==
  /\ pc = "setThreadCount"
  /\ IF threads_exists
     THEN /\ engine' = Append(engine, thread_count)
          /\ trace' = Append(trace, Event("setThreadCount", ""))
     ELSE UNCHANGED <<engine, trace>>
  /\ pc' = "staSetupAppInit"
  /\ UNCHANGED <<argv, ended, exitRan, buffer, status, history, histfile, stdin,
                 stderr, stdout, prompts, firstFailed>>
  /\ UNCHANGED <<nproc, thread_count, threads_exists, genVars, decVars>>

\* staMain line 72.
SetupAppInit == Call("staSetupAppInit", "Tcl_CreateInterp")

\* CreateInterp going on without line 75.
CreateInterp_skips_exit_command == Call("Tcl_CreateInterp", "Tcl_Init")

\* staMain line 74.
CreateInterp == Call("Tcl_CreateInterp", "CreateObjCommand")

\* staMain line 75: the "exit" command is bound to command_exit.
CreateExitCommand == Call("CreateObjCommand", "Tcl_Init")

\* staTclAppInit line 140.
TclInit == Call("Tcl_Init", After("Tcl_Init"))

\* staTclAppInit line 143.
SwigInit == Call("swig_init", After("swig_init"))

\* staTclAppInit lines 145-146.
SetTclInterp == Call("setTclInterp", After("setTclInterp"))

\* evalTclInit: evaluate the decoded bundle; on a non-success status report
\* and exit(0).
EvalTclInit ==
  /\ pc = "evalTclInit"
  /\ trace' = Append(trace, Event("evalTclInit", tcl_inits_script))
  /\ \E out \in EvalOutcomes(tcl_inits_script = "") :
       /\ ended' = IF out.exit THEN command_exit(ended) ELSE ended
       /\ exitRan' = (exitRan \/ out.exit)
       /\ IF out.code # TCL_OK
          THEN /\ stderr' = stderr \o <<[kind |-> "Error: TCL init script", of |-> <<>>],
                                        [kind |-> "Try deleting app/TclInitVar.cc", of |-> <<>>]>>
               /\ firstFailed' = "evalTclInit"
          ELSE /\ stderr' = stderr
               /\ firstFailed' = firstFailed
       /\ pc' = AfterEvalTclInit(out.code)
  /\ UNCHANGED <<argv, buffer, status, history, histfile, stdin, stdout, prompts>>
  /\ UNCHANGED auxVars

\* staTclAppInit lines 151-152.
ShowSplash ==
  IF ~findCmdLineFlag(argv, "-no_splash")
  THEN BootEval("show_splash", "sta::show_splash")
  ELSE Skip("show_splash")

\* staTclAppInit line 155.
DefineStaCmds == BootEval("define_sta_cmds", "sta::define_sta_cmds")

\* staTclAppInit lines 156-157.
NamespaceImport == BootEval("namespace_import", "namespace import sta::*")

\* staTclAppInit lines 159-160.
SourceInitFile ==
  IF ~findCmdLineFlag(argv, "-no_init")
  THEN BootEval("init_file", sourceCmd(init_filename))
  ELSE Skip("init_file")

\* staTclAppInit lines 163-165.
EvalXCmd ==
  LET cmd == findCmdLineKey(argv, "-x")
  IN  IF cmd # NULL THEN BootEval("x_cmd", cmd[1]) ELSE Skip("x_cmd")

\* staTclAppInit lines 168-170.
SourceFFile ==
  LET file == findCmdLineKey(argv, "-f")
  IN  IF file # NULL THEN BootEval("f_file", sourceCmd(file[1])) ELSE Skip("f_file")

\* ------------------------------------------------------------------ InteractiveLoop

\* staMain line 81.
LoadHistory ==
  /\ pc = "load_history"
  /\ history' = load_history(history, histfile)
  /\ trace' = Append(trace, Event("load_history", ""))
  /\ pc' = "while"
  /\ UNCHANGED <<argv, ended, exitRan, buffer, status, histfile, stdin, stderr,
                 stdout, prompts, firstFailed>>
  /\ UNCHANGED auxVars

\* LoopCond without the test of ended.
LoopCond_ignores_ended ==
  /\ pc = "while"
  /\ pc' = "readline"
  /\ UNCHANGED <<argv, ended, exitRan, buffer, status, history, histfile, stdin,
                 stderr, stdout, prompts, trace, firstFailed>>
  /\ UNCHANGED auxVars

\* staMain line 83, left operand of && : (!ended).
LoopCond ==
  /\ pc = "while"
  /\ pc' = IF ~ended THEN "readline" ELSE "save_history"
  /\ UNCHANGED <<argv, ended, exitRan, buffer, status, history, histfile, stdin,
                 stderr, stdout, prompts, trace, firstFailed>>
  /\ UNCHANGED auxVars

\* staMain line 83, right operand: (buffer = readline("OpenSTA> ")) != NULL.
Readline ==
  /\ pc = "readline"
  /\ prompts' = prompts + 1
  /\ IF stdin = <<>>
     THEN /\ buffer' = NULL
          /\ stdin' = stdin
          /\ pc' = "save_history"
     ELSE /\ buffer' = <<Head(stdin)>>
          /\ stdin' = Tail(stdin)
          /\ pc' = "Tcl_Eval"
  /\ UNCHANGED <<argv, ended, exitRan, status, history, histfile, stderr, stdout,
                 trace, firstFailed>>
  /\ UNCHANGED auxVars

\* report that stays silent.
report_nothing(err, code, text) == err

\* staMain lines 85-87: if (status != TCL_OK) fprintf(stderr, "%s\n", result).
report(err, code, text) ==
  IF code # TCL_OK THEN Append(err, text) ELSE err

\* The interpreter's result text after it evaluated script.
Tcl_GetStringResult(script) == [kind |-> "Tcl_GetStringResult", of |-> script]

\* staMain lines 84-87: evaluate the line, report a non-success status.
EvalLine ==
  /\ pc = "Tcl_Eval"
  /\ \E out \in EvalOutcomes(buffer[1] = <<>>) :
       /\ status' = out.code
       /\ ended' = IF out.exit THEN command_exit(ended) ELSE ended
       /\ exitRan' = (exitRan \/ out.exit)
       /\ stderr' = report(stderr, out.code, Tcl_GetStringResult(buffer[1]))
  /\ pc' = "add_history"
  /\ UNCHANGED <<argv, buffer, history, histfile, stdin, stdout, prompts, trace,
                 firstFailed>>
  /\ UNCHANGED auxVars

\* AddHistory with "if (ended || status != TCL_OK) break".
AddHistory_break_on_error ==
  /\ pc = "add_history"
  /\ history' = IF buffer[1] # <<>> THEN add_history(history, buffer[1]) ELSE history
  /\ pc' = IF ended \/ status # TCL_OK THEN "save_history" ELSE "while"
  /\ UNCHANGED <<argv, ended, exitRan, buffer, status, histfile, stdin, stderr,
                 stdout, prompts, trace, firstFailed>>
  /\ UNCHANGED auxVars

\* staMain lines 88-91: keep a non-empty line, free it, leave the loop if ended.
AddHistory ==
  /\ pc = "add_history"
  /\ history' = IF buffer[1] # <<>> THEN add_history(history, buffer[1]) ELSE history
  /\ pc' = IF ended THEN "save_history" ELSE "while"
  /\ UNCHANGED <<argv, ended, exitRan, buffer, status, histfile, stdin, stderr,
                 stdout, prompts, trace, firstFailed>>
  /\ UNCHANGED auxVars

\* staMain line 94.
SaveHistory ==
  /\ pc = "save_history"
  /\ stdout' = Append(stdout, "Saving command history")
  /\ histfile' = save_history(history, histfile)
  /\ trace' = Append(trace, Event("save_history", ""))
  /\ pc' = "Tcl_DeleteInterp"
  /\ UNCHANGED <<argv, ended, exitRan, buffer, status, history, stdin, stderr,
                 prompts, firstFailed>>
  /\ UNCHANGED auxVars

\* staMain line 96.
DeleteInterp == Call("Tcl_DeleteInterp", "Tcl_Finalize")

\* staMain line 97.
Finalize == Call("Tcl_Finalize", "done")

\* ------------------------------------------------------------------ CompletionProvider

\* The array extra_commands: pointers to the names, then the null sentinel.
extra_commands ==
  <<<<<<"a", "l", "l", "_", "c", "l", "o", "c", "k", "s">>>>,
    <<<<"a", "l", "l", "_", "i", "n", "p", "u", "t", "s">>>>,
    <<<<"a", "l", "l", "_", "o", "u", "t", "p", "u", "t", "s">>>>,
    <<<<"a", "l", "l", "_", "r", "e", "g", "i", "s", "t", "e", "r", "s">>>>,
    <<<<"c", "h", "e", "c", "k", "_", "s", "e", "t", "u", "p">>>>,
    <<<<"c", "r", "e", "a", "t", "e", "_", "c", "l", "o", "c", "k">>>>,
    <<<<"c", "r", "e", "a", "t", "e", "_", "g", "e", "n", "e", "r", "a", "t", "e", "d", "_", "c", "l", "o", "c", "k">>>>,
    <<<<"c", "r", "e", "a", "t", "e", "_", "v", "o", "l", "t", "a", "g", "e", "_", "a", "r", "e", "a">>>>,
    <<<<"c", "u", "r", "r", "e", "n", "t", "_", "d", "e", "s", "i", "g", "n">>>>,
    <<<<"c", "u", "r", "r", "e", "n", "t", "_", "i", "n", "s", "t", "a", "n", "c", "e">>>>,
    <<<<"d", "e", "f", "i", "n", "e", "_", "c", "o", "r", "n", "e", "r", "s">>>>,
    <<<<"g", "e", "t", "_", "c", "l", "o", "c", "k", "s">>>>,
    <<<<"g", "e", "t", "_", "f", "a", "n", "i", "n">>>>,
    <<<<"g", "e", "t", "_", "f", "a", "n", "o", "u", "t">>>>,
    <<<<"g", "e", "t", "_", "n", "e", "t", "s">>>>,
    <<<<"g", "e", "t", "_", "p", "i", "n", "s">>>>,
    <<<<"g", "e", "t", "_", "p", "o", "r", "t", "s">>>>,
    <<<<"r", "e", "a", "d", "_", "l", "i", "b", "e", "r", "t", "y">>>>,
    <<<<"r", "e", "a", "d", "_", "p", "a", "r", "a", "s", "i", "t", "i", "c", "s">>>>,
    <<<<"r", "e", "a", "d", "_", "s", "d", "c">>>>,
    <<<<"r", "e", "a", "d", "_", "s", "d", "f">>>>,
    <<<<"r", "e", "a", "d", "_", "s", "p", "e", "f">>>>,
    <<<<"r", "e", "a", "d", "_", "v", "e", "r", "i", "l", "o", "g">>>>,
    <<<<"r", "e", "p", "o", "r", "t", "_", "a", "n", "n", "o", "t", "a", "t", "e", "d", "_", "d", "e", "l", "a", "y">>>>,
    <<<<"r", "e", "p", "o", "r", "t", "_", "c", "e", "l", "l">>>>,
    <<<<"r", "e", "p", "o", "r", "t", "_", "c", "h", "e", "c", "k", "s">>>>,
    <<<<"r", "e", "p", "o", "r", "t", "_", "p", "a", "t", "h">>>>,
    <<<<"r", "e", "p", "o", "r", "t", "_", "s", "l", "a", "c", "k">>>>,
    <<<<"s", "e", "t", "_", "i", "n", "p", "u", "t", "_", "d", "e", "l", "a", "y">>>>,
    <<<<"w", "r", "i", "t", "e", "_", "s", "d", "c">>>>,
    <<<<"w", "r", "i", "t", "e", "_", "s", "d", "f">>>>,
    NULL>>

\* The C index of the sentinel of extra_commands.
SentinelIndex == Len(extra_commands) - 1

NUL == "NUL"

\* The character at 1-based position i of the C string s: past its last
\* character comes the terminating NUL.
CharAt(s, i) == IF i <= Len(s) THEN s[i] ELSE NUL

strlen(s) == Len(s)

\* strcmp(a, b) == 0 in place of strncmp.
strcmp_eq(a, b, n) == a = b

\* strncmp(a, b, n) == 0: the first n characters agree, or both strings end
\* together before that.
strncmp_eq(a, b, n) ==
  \A i \in 1..n :
    (\A j \in 1..(i - 1) : CharAt(a, j) # NUL) => CharAt(a, i) = CharAt(b, i)

\* What lies behind the array is not a name of the list.
Garbage == <<<<"?">>>>

\* The while loop of extra_command_generator from cursor idx on, for the
\* prefix t of recorded length n: the values the call can return, each with
\* the cursor it leaves and whether the array was read past its sentinel.
\* A read past the sentinel is undefined: it yields a null or some other
\* pointer.
RECURSIVE scan(_, _, _)
scan(idx, t, n) ==
  IF idx > SentinelIndex
  THEN {[ret |-> r, index |-> idx + 1, past |-> TRUE] : r \in {NULL, Garbage}}
  ELSE LET name == extra_commands[idx + 1]
       IN  IF name = NULL THEN {[ret |-> NULL, index |-> idx + 1, past |-> FALSE]}
           ELSE IF strncmp_eq(name[1], t, n)
           THEN {[ret |-> name, index |-> idx + 1, past |-> FALSE]}
           ELSE scan(idx + 1, t, n)

\* The prefixes completion is asked for.
Prefixes ==
  {<<>>,
   <<"g", "e", "t", "_">>,
   <<"g", "e", "t", "_", "f">>,
   <<"r", "e">>,
   <<"r", "e", "p", "o", "r", "t", "_", "c">>,
   <<"a", "l", "l", "_">>,
   <<"z">>,
   <<"G", "e", "t", "_">>,
   <<"w", "r", "i", "t", "e", "_", "s", "d", "f", "x">>,
   <<"w", "r", "i", "t", "e", "_", "s", "d", "f">>}

\* extra_command_generator(t, 0): the first call for a prefix.
GeneratorFirst ==
  /\ \E t \in Prefixes :
       /\ rl_text' = t
       /\ len' = strlen(t)
       /\ \E out \in scan(0, t, strlen(t)) :
            /\ list_index' = out.index
            /\ returned' = <<out.ret>>
            /\ beyond' = (beyond \/ out.past)
  /\ UNCHANGED <<mainVars, thrVars, decVars>>

\* extra_command_generator(rl_text, state) with state != 0: a further call
\* for the same prefix, also after the null return.
GeneratorNext ==
  /\ returned # <<>>
  /\ list_index < SentinelIndex + 1 + MaxExtraCalls
  /\ \E out \in scan(list_index, rl_text, len) :
       /\ list_index' = out.index
       /\ returned' = Append(returned, out.ret)
       /\ beyond' = (beyond \/ out.past)
  /\ UNCHANGED <<rl_text, len>>
  /\ UNCHANGED <<mainVars, thrVars, decVars>>

\* ------------------------------------------------------------------ bundle decoding

\* The leading decimal digits of a C string: what atoi converts.
RECURSIVE LeadingDigits(_)
LeadingDigits(s) ==
  IF s = <<>> \/ Head(s) \notin Digits THEN <<>>
  ELSE <<Head(s)>> \o LeadingDigits(Tail(s))

\* atoi on a code that keeps only s[0] and s[1].
atoi_code_two_chars(code) == DecimalFrom(LeadingDigits(SubSeq(code, 1, 2)), 1, 0)

\* atoi(code) for the 3-character string code of line 226; three digits fit
\* an int.
atoi_code(code) == DecimalFrom(LeadingDigits(code), 1, 0)

\* char ch = v: the byte that is stored, written as a number in 0..255
\* whether char is signed or not.
ToChar(v) == v % 256

\* The inner loop of evalTclInit, lines 225-229, from offset s of fragment
\* init on: one char per step of 3.
RECURSIVE decode_from(_, _)
decode_from(init, s) ==
  IF s >= strlen(init) THEN <<>>
  ELSE LET code == <<CharAt(init, s + 1), CharAt(init, s + 2), CharAt(init, s + 3)>>
       IN  <<ToChar(atoi_code(code))>> \o decode_from(init, s + 3)

\* evalTclInit lines 215-221: the sizing loop, the allocation and u.
DecodeBegin ==
  /\ dpc = "idle"
  /\ dpc' = "for"
  /\ frag' = 1
  /\ off' = 0
  /\ unencoded' = <<>>
  /\ UNCHANGED inits
  /\ UNCHANGED <<mainVars, thrVars, genVars>>

\* evalTclInit lines 222-230: one turn of the outer loop, for a fragment
\* ahead of the sentinel.
DecodeFragment ==
  /\ dpc = "for"
  /\ frag <= Len(inits)
  /\ unencoded' = unencoded \o decode_from(inits[frag], 0)
  /\ off' = 3 * ((strlen(inits[frag]) + 2) \div 3)
  /\ frag' = frag + 1
  /\ UNCHANGED <<inits, dpc>>
  /\ UNCHANGED <<mainVars, thrVars, genVars>>

\* evalTclInit lines 222 and 231: the outer loop ends at the sentinel and
\* the buffer is terminated.
DecodeEnd ==
  /\ dpc = "for"
  /\ frag > Len(inits)
  /\ dpc' = "decoded"
  /\ UNCHANGED <<inits, frag, off, unencoded>>
  /\ UNCHANGED <<mainVars, thrVars, genVars>>

\* ------------------------------------------------------------------ specifications

ProgName == "sta"

\* argv[0] is whatever the caller of exec passed: the usual name, or a string
\* that happens to spell a flag.
ProgNames == {ProgName, "-no_splash"}

\* What an argument can be: the flags staTclAppInit looks for and one value.
Tokens == {"-x", "-f", "-no_splash", "-no_init", "a"}

ArgLists == {<<p>> \o s : p \in ProgNames, s \in SeqsUpTo(Tokens, MaxArgs)}

\* What readline can return: the empty line and two different commands.
InputLines == {<<>>, <<"a">>, <<"b">>}

Files == {NoFile} \cup {File(d) : d \in SeqsUpTo({"a", NL}, MaxFile)}

\* The state staMain starts the interpreter in, for a given command line,
\* history file and standard input.
StartWith(args, file, input, fragments) ==
  /\ argv = args
  /\ histfile = file
  /\ stdin = input
  /\ pc = "parseThreadsArg"
  /\ thread_count = 1
  /\ threads_exists = FALSE
  /\ engine = <<>>
  /\ rl_text = <<>>
  /\ list_index = 0
  /\ len = 0
  /\ returned = <<>>
  /\ beyond = FALSE
  /\ inits = fragments
  /\ dpc = "idle"
  /\ frag = 1
  /\ off = 0
  /\ unencoded = <<>>
  /\ ended = FALSE
  /\ exitRan = FALSE
  /\ buffer = NULL      \* not assigned yet; line 83 assigns it before any use
  /\ status = TCL_OK    \* not assigned yet; line 84 assigns it before any use
  /\ history = <<>>
  /\ stderr = <<>>
  /\ stdout = <<>>
  /\ prompts = 0
  /\ trace = <<>>
  /\ firstFailed = "none"

Start(args, file, input) == StartWith(args, file, input, <<>>)

\* Any command line; one history file and one line of input.
Init ==
  /\ nproc = 4
  /\ \E args \in ArgLists : Start(args, File(<<"a", NL>>), <<<<"b">>>>)

\* Any history file and any input; a few command lines.
SessionArgLists ==
  {<<ProgName>>,
   <<ProgName, "-no_splash", "-no_init">>,
   <<ProgName, "-f", "a", "-x", "a">>}

InitSession ==
  /\ nproc = 4
  /\ \E args \in SessionArgLists, file \in Files, input \in SeqsUpTo(InputLines, MaxLines) :
       Start(args, file, input)

\* What can follow the program name when -threads is looked for.
ThreadTokens == {"-threads", "max", "7", "16", "banana", "2147483648"}

ThreadArgLists == {<<ProgName>> \o s : s \in SeqsUpTo(ThreadTokens, MaxThreadArgs)}

ProcessorCounts == {1, 4}

\* Any -threads command line on any machine; one history file, one input line.
InitThreads ==
  /\ nproc \in ProcessorCounts
  /\ \E args \in ThreadArgLists : Start(args, File(<<"a", NL>>), <<<<"b">>>>)

Next ==
  \/ ParseThreadsArg
  \/ SetThreadCount
  \/ SetupAppInit
  \/ CreateInterp
  \/ CreateExitCommand
  \/ TclInit
  \/ SwigInit
  \/ SetTclInterp
  \/ EvalTclInit
  \/ ShowSplash
  \/ DefineStaCmds
  \/ NamespaceImport
  \/ SourceInitFile
  \/ EvalXCmd
  \/ SourceFFile
  \/ LoadHistory
  \/ LoopCond
  \/ Readline
  \/ EvalLine
  \/ AddHistory
  \/ SaveHistory
  \/ DeleteInterp
  \/ Finalize

Spec == Init /\ [][Next]_vars

SpecSession == InitSession /\ [][Next]_vars

SpecThreads == InitThreads /\ [][Next]_vars

\* The generator before its first call, in a process that has just started.
InitCompletion ==
  /\ nproc = 4
  /\ Start(<<ProgName>>, NoFile, <<>>)

NextCompletion ==
  \/ GeneratorFirst
  \/ GeneratorNext

SpecCompletion == InitCompletion /\ [][NextCompletion]_vars

\* The codes of the least and the greatest byte and of one between them,
\* with three different digits.
Codes == {<<"0", "0", "0">>, <<"1", "2", "0">>, <<"2", "5", "5">>}

RECURSIVE Flatten(_)
Flatten(ss) == IF ss = <<>> THEN <<>> ELSE Head(ss) \o Flatten(Tail(ss))

\* The fragments: up to MaxSlices codes each.
Fragments == {Flatten(cs) : cs \in SeqsUpTo(Codes, MaxSlices)}

InitDecode ==
  /\ nproc = 4
  /\ \E fs \in SeqsUpTo(Fragments, MaxFragments) :
       StartWith(<<ProgName>>, NoFile, <<>>, fs)

NextDecode ==
  \/ DecodeBegin
  \/ DecodeFragment
  \/ DecodeEnd

SpecDecode == InitDecode /\ [][NextDecode]_vars

\* ------------------------------------------------------------------ properties

\* The statement `step` has been executed (its call was made).
Ran(step) == \E i \in 1..Len(trace) : trace[i].step = step

\* The steps recorded so far, without their scripts.
StepsRun == [i \in 1..Len(trace) |-> trace[i].step]

\* Some argument other than the program name equals name.
HasFlag(name) == \E i \in 2..Len(argv) : argv[i] = name

\* key occurs, other than as the program name, with an argument after it.
Usable(key) == \E i \in 2..(Len(argv) - 1) : argv[i] = key

\* staTclAppInit has returned to staMain.
BootDone ==
  pc \in {"load_history", "while", "readline", "Tcl_Eval", "add_history",
          "save_history", "Tcl_DeleteInterp", "Tcl_Finalize", "done"}

\* Bootstrap steps 6 to 10 by the statement that performs them, in the order
\* the specification lists them.
LateSteps ==
  <<"show_splash", "define_sta_cmds", "namespace_import", "init_file", "x_cmd", "f_file">>

\* The condition under which a late step is due for the command line.
Due(step) ==
  CASE step = "show_splash" -> ~HasFlag("-no_splash")
    [] step = "init_file" -> ~HasFlag("-no_init")
    [] step = "x_cmd" -> Usable("-x")
    [] step = "f_file" -> Usable("-f")
    [] OTHER -> TRUE

IsLate(step) == \E k \in 1..Len(LateSteps) : LateSteps[k] = step

\* The late steps that must have run once control stands at pc.
LateStepsBefore(at) ==
  LET n == IF \E k \in 1..Len(LateSteps) : LateSteps[k] = at
           THEN (CHOOSE k \in 1..Len(LateSteps) : LateSteps[k] = at) - 1
           ELSE IF BootDone THEN Len(LateSteps) ELSE 0
  IN  SelectSeq(SubSeq(LateSteps, 1, n), Due)

\* C1: when the command line holds a usable "-x <cmd>" and a usable
\* "-f <file>", the -f file is never sourced unless the -x command was
\* evaluated earlier, and once bootstrap is over both have run, whatever the
\* order of the two pairs on the command line.
C1_XBeforeF ==
  (Usable("-x") /\ Usable("-f")) =>
    /\ \A j \in 1..Len(trace) :
         trace[j].step = "f_file" => \E i \in 1..(j - 1) : trace[i].step = "x_cmd"
    /\ BootDone => (Ran("x_cmd") /\ Ran("f_file"))

\* Bootstrap is over for a command line that names -f ahead of -x.
C1_Witness ==
  /\ Len(argv) = 5
  /\ argv[2] = "-f" /\ argv[4] = "-x"
  /\ pc = "load_history"
  /\ Ran("x_cmd") /\ Ran("f_file")

\* C2: when the evaluation of the embedded bundle fails the process is gone:
\* control is at exit, the bundle evaluation is the last call made, no late
\* bootstrap step ran, history was neither loaded nor saved, nothing was
\* prompted for.
C2_BundleFailureIsFatal ==
  firstFailed = "evalTclInit" =>
    /\ pc = "exited"
    /\ trace[Len(trace)].step = "evalTclInit"
    /\ \A i \in 1..Len(trace) :
         /\ ~IsLate(trace[i].step)
         /\ trace[i].step \notin {"load_history", "save_history"}
    /\ history = <<>>
    /\ prompts = 0
    /\ stdout = <<>>

\* The bundle failed and the process has exited.
C2_Witness == pc = "exited" /\ firstFailed = "evalTclInit" /\ stderr # <<>>

\* C3: the process exits during bootstrap only through a failed bundle
\* evaluation; otherwise, whatever the late steps returned, the late steps
\* run so far are exactly the due ones ahead of the current statement, in
\* order, and after the last of them control is in staMain's loop code.
C3_LateFailuresDoNotAbort ==
  /\ pc = "exited" => firstFailed = "evalTclInit"
  /\ pc # "exited" =>
       SelectSeq(StepsRun, IsLate) = LateStepsBefore(pc)

\* The splash failed, every later step still ran and the loop is about to
\* prompt.
C3_Witness ==
  /\ firstFailed = "show_splash"
  /\ Ran("init_file") /\ Ran("x_cmd") /\ Ran("f_file")
  /\ pc = "readline"

\* C4 (as claimed): every late bootstrap evaluation that returned a
\* non-success status has put the interpreter's error text on the diagnostic
\* stream.
C4_LateFailureReported ==
  IsLate(firstFailed) =>
    \E i \in 1..Len(stderr) : stderr[i].kind = "Tcl_GetStringResult"

\* C5: the splash command has run only if no argument after the program name
\* is -no_splash, the init file only if none is -no_init; once control is past
\* the statement each has run exactly when its flag is absent; and the init
\* file is never sourced ahead of the splash.
C5_SplashAndInitSkips ==
  /\ Ran("show_splash") => ~HasFlag("-no_splash")
  /\ Ran("init_file") => ~HasFlag("-no_init")
  /\ BootDone => /\ Ran("show_splash") <=> ~HasFlag("-no_splash")
                 /\ Ran("init_file") <=> ~HasFlag("-no_init")
  /\ \A i, j \in 1..Len(trace) :
       (trace[i].step = "show_splash" /\ trace[j].step = "init_file") => i < j

\* -no_splash given as the last of several arguments: the init file ran, the
\* splash did not.
C5_Witness ==
  /\ Len(argv) >= 3
  /\ argv[Len(argv)] = "-no_splash"
  /\ ~HasFlag("-no_init")
  /\ BootDone
  /\ Ran("init_file") /\ ~Ran("show_splash")

\* Control is past the loop of staMain.
LoopLeft == pc \in {"save_history", "Tcl_DeleteInterp", "Tcl_Finalize", "done"}

\* Number of times the statement name has been executed.
Count(name) == Cardinality({i \in 1..Len(trace) : trace[i].step = name})

\* C6: once the evaluation of an interactive line has run the exit command,
\* no step prompts again, takes another line from the input or evaluates one,
\* even when input is left.
C6_ExitStopsLoop ==
  [][(exitRan /\ prompts > 0) =>
       /\ prompts' = prompts
       /\ stdin' = stdin
       /\ buffer' = buffer
       /\ pc' \notin {"while", "readline", "Tcl_Eval"}]_vars

\* The session is over after an interactive exit, with input left unread.
C6_Witness ==
  /\ exitRan /\ prompts > 0
  /\ stdin # <<>>
  /\ pc = "done"

\* C7: an interactive evaluation that returns a non-success status appends
\* the interpreter's result text for that line to the diagnostic stream and
\* goes on to the history step; from there, unless ended is set, control goes
\* back to the loop test, which, unless ended is set, calls readline, which
\* prompts.
C7_LineErrorContinues ==
  [][/\ (pc = "Tcl_Eval" /\ status' # TCL_OK) =>
          /\ stderr' = Append(stderr, Tcl_GetStringResult(buffer[1]))
          /\ pc' = "add_history"
     /\ (pc = "add_history" /\ status # TCL_OK /\ ~ended) => pc' = "while"
     /\ (pc = "while" /\ ~ended) => pc' = "readline"
     /\ pc = "readline" => prompts' = prompts + 1]_vars

\* A line failed, its text is on the diagnostic stream, and the loop is about
\* to prompt again.
C7_Witness ==
  /\ pc = "readline"
  /\ prompts > 0
  /\ status = TCL_ERROR
  /\ ~ended
  /\ stderr # <<>>
  /\ stderr[Len(stderr)] = Tcl_GetStringResult(buffer[1])

\* C8: control is past the loop only if ended is set or the last readline
\* returned the null pointer; save_history is not called while control is in
\* bootstrap or in the loop, has been called exactly once when the
\* interpreter is deleted, and a finished run ends with save_history,
\* Tcl_DeleteInterp, Tcl_Finalize in that order.
C8_SaveOnceAfterLoop ==
  /\ LoopLeft => (ended \/ (prompts > 0 /\ buffer = NULL))
  /\ Count("save_history") <= 1
  /\ Count("save_history") = 1 => LoopLeft /\ pc # "save_history"
  /\ pc \in {"Tcl_DeleteInterp", "Tcl_Finalize", "done"} => Count("save_history") = 1
  /\ Ran("Tcl_DeleteInterp") =>
       /\ Count("Tcl_DeleteInterp") = 1
       /\ \E i, j \in 1..Len(trace) :
            i < j /\ trace[i].step = "save_history" /\ trace[j].step = "Tcl_DeleteInterp"
  /\ pc = "done" =>
       SubSeq(StepsRun, Len(trace) - 2, Len(trace)) =
         <<"save_history", "Tcl_DeleteInterp", "Tcl_Finalize">>

\* A run that ended by end of input after an erroneous line, history saved.
C8_Witness ==
  /\ pc = "done"
  /\ ~ended
  /\ buffer = NULL
  /\ status = TCL_ERROR
  /\ history # <<>>
  /\ histfile = File(print_lines(history))

\* Every entry of h is non-empty and holds no newline.
PlainEntries(h) ==
  \A i \in 1..Len(h) : h[i] # <<>> /\ \A k \in 1..Len(h[i]) : h[i][k] # NL

\* C9: once save_history has run on a history of non-empty, newline-free
\* entries, load_history into an empty history reads the same entries back
\* from the file, in the same order.
C9_HistoryRoundTrip ==
  (pc \in {"Tcl_DeleteInterp", "Tcl_Finalize", "done"} /\ PlainEntries(history)) =>
    load_history(<<>>, histfile) = history

\* Three entries, not all alike, saved and read back.
C9_Witness ==
  /\ pc = "done"
  /\ Len(history) >= 3
  /\ history[1] # history[2]
  /\ history[2] # history[3]
  /\ load_history(<<>>, histfile) = history

\* C10: the in-memory history never holds an empty entry.
C10_NoEmptyEntry ==
  \A i \in 1..Len(history) : history[i] # <<>>

\* The file began with a blank line, an empty input line was read and
\* dropped, and the history holds the other entries.
C10_Witness ==
  /\ pc = "while"
  /\ histfile.exists
  /\ Len(histfile.data) >= 2
  /\ histfile.data[1] = NL
  /\ buffer = <<<<>>>>
  /\ history # <<>>

\* The argument right after the first occurrence of key behind the program
\* name, as a pointer; null when key does not occur or occurs first as the
\* last argument.
FirstAfter(key) ==
  LET at == {i \in 2..Len(argv) : argv[i] = key}
  IN  IF at = {} THEN <<>>
      ELSE LET first == CHOOSE i \in at : \A j \in at : i <= j
           IN  IF first < Len(argv) THEN <<argv[first + 1]>> ELSE <<>>

\* The script of the recorded execution of step.
ScriptOf(step) == trace[CHOOSE i \in 1..Len(trace) : trace[i].step = step].script

\* C12: for every key, findCmdLineKey yields the argument right after the
\* first occurrence of the key behind the program name, and not-found when
\* there is none or the key comes first as the last argument;
\* findCmdLineFlag is true exactly when some argument behind the program
\* name equals the name; and what staTclAppInit evaluated for -x and -f is
\* built from those arguments.
C12_KeyAndFlagLookup ==
  /\ \A key \in Tokens :
       /\ findCmdLineKey(argv, key) = FirstAfter(key)
       /\ findCmdLineFlag(argv, key) <=> HasFlag(key)
  /\ Ran("x_cmd") => <<ScriptOf("x_cmd")>> = FirstAfter("-x")
  /\ Ran("f_file") =>
       /\ FirstAfter("-f") # <<>>
       /\ ScriptOf("f_file") = "source -echo -verbose " \o FirstAfter("-f")[1]
  /\ (BootDone /\ ~Ran("x_cmd")) => FirstAfter("-x") = <<>>
  /\ (BootDone /\ ~Ran("f_file")) => FirstAfter("-f") = <<>>

\* -x occurs twice, the second time as the last argument, behind a program
\* name that spells a flag: the first value was evaluated.
C12_Witness ==
  /\ Len(argv) = 5
  /\ argv[1] = "-no_splash"
  /\ argv[2] = "-x" /\ argv[3] = "-f" /\ argv[5] = "-x"
  /\ BootDone
  /\ ScriptOf("x_cmd") = "-f"
  /\ Ran("show_splash")

\* The decimal numeral of a natural number.
RECURSIVE Numeral(_)
Numeral(n) ==
  LET d == <<"0", "1", "2", "3", "4", "5", "6", "7", "8", "9">>[(n % 10) + 1]
  IN  IF n < 10 THEN <<d>> ELSE Append(Numeral(n \div 10), d)

\* str is written with decimal digits only.
AllDigits(str) == \A i \in 1..Len(Spelling(str)) : Spelling(str)[i] \in Digits

\* C13 (as claimed): once staMain is past line 70, a -threads value of max
\* has sent the processor count to the engine, a value written in decimal
\* digits has sent the number it denotes, any other value has put the warning
\* on the diagnostic stream, left thread_count at 1 and sent nothing; the
\* engine is told at most once, and before Tcl_CreateInterp.
C13_ThreadCount ==
  LET arg == FirstAfter("-threads")
      warned == \E i \in 1..Len(stderr) :
                  stderr[i].kind = "Warning: -threads must be max or a positive integer."
  IN  /\ Len(engine) <= 1
      /\ \A i, j \in 1..Len(trace) :
           (trace[i].step = "Tcl_CreateInterp" /\ trace[j].step = "setThreadCount") => j < i
      /\ pc \notin {"parseThreadsArg", "setThreadCount"} =>
           /\ arg = <<>> => (engine = <<>> /\ ~warned)
           /\ (arg # <<>> /\ arg[1] = "max") => engine = <<nproc>>
           /\ (arg # <<>> /\ arg[1] # "max" /\ AllDigits(arg[1])) =>
                /\ Len(engine) = 1
                /\ engine[1] >= 0
                /\ Numeral(engine[1]) = Spelling(arg[1])
           /\ (arg # <<>> /\ arg[1] # "max" /\ ~AllDigits(arg[1])) =>
                /\ warned
                /\ thread_count = 1
                /\ engine = <<>>
                /\ pc # "exited" \/ firstFailed = "evalTclInit"

\* name begins with the characters of t.
HasPrefix(name, t) == Len(t) <= Len(name) /\ SubSeq(name, 1, Len(t)) = t

\* The names of extra_commands, without the sentinel.
CommandNames == [i \in 1..SentinelIndex |-> extra_commands[i][1]]

\* The names that begin with t, in list order.
Matching(t) ==
  LET Begins(name) == HasPrefix(name, t)
  IN  SelectSeq(CommandNames, Begins)

GetMatches ==
  <<<<"g", "e", "t", "_", "c", "l", "o", "c", "k", "s">>,
    <<"g", "e", "t", "_", "f", "a", "n", "i", "n">>,
    <<"g", "e", "t", "_", "f", "a", "n", "o", "u", "t">>,
    <<"g", "e", "t", "_", "n", "e", "t", "s">>,
    <<"g", "e", "t", "_", "p", "i", "n", "s">>,
    <<"g", "e", "t", "_", "p", "o", "r", "t", "s">>>>

\* C11: the results of the first call for a prefix and of the calls that
\* follow it are, one by one, the entries of extra_commands that begin with
\* the prefix, in list order, and then the null pointer; for get_ these are
\* get_clocks, get_fanin, get_fanout, get_nets, get_pins, get_ports.
C11_CompletionCandidates ==
  LET exp == Matching(rl_text)
  IN  /\ \A i \in 1..Len(returned) :
           /\ i <= Len(exp) => returned[i] = <<exp[i]>>
           /\ i = Len(exp) + 1 => returned[i] = NULL
      /\ Matching(<<"g", "e", "t", "_">>) = GetMatches

\* All six candidates for get_ and the null pointer have been returned.
C11_Witness ==
  /\ rl_text = <<"g", "e", "t", "_">>
  /\ Len(returned) = 7
  /\ returned[6] = <<GetMatches[6]>>
  /\ returned[7] = NULL

\* C20 (as claimed): no call of the generator reads extra_commands past its
\* sentinel, and every call after the one that returned null returns null.
C20_CursorStaysInArray ==
  /\ ~beyond
  /\ \A i \in 1..Len(returned) :
       i > Len(Matching(rl_text)) => returned[i] = NULL

\* Some execution of step a is recorded ahead of every execution of step b.
Precedes(a, b) ==
  \A j \in 1..Len(trace) :
    trace[j].step = b => \E i \in 1..(j - 1) : trace[i].step = a

\* C14: the registrar is never called twice, it has been called once when
\* the bundle is evaluated and when the run is over, the exit command is
\* registered ahead of it and it is called ahead of the bundle evaluation;
\* nothing that registers commands is recorded ahead of the registration of
\* exit.
C14_RegistrarOnce ==
  /\ Count("swig_init") <= 1
  /\ (Ran("evalTclInit") \/ pc \in {"done", "exited"}) => Count("swig_init") = 1
  /\ Precedes("CreateObjCommand", "swig_init")
  /\ Precedes("swig_init", "evalTclInit")
  /\ \A j \in 1..Len(trace) :
       trace[j].step = "CreateObjCommand" =>
         \A i \in 1..(j - 1) :
           /\ trace[i].step \notin {"swig_init", "evalTclInit", "Tcl_Init"}
           /\ ~IsLate(trace[i].step)

\* The bundle has been evaluated after one call of the registrar.
C14_Witness ==
  /\ pc = "show_splash"
  /\ Count("swig_init") = 1
  /\ trace[Len(trace)].step = "evalTclInit"

\* C16 (as claimed): Tcl_Init has run whenever the exit command is
\* registered.
C16_InitBeforeExitCommand == Precedes("Tcl_Init", "CreateObjCommand")

\* C16 (amended): the exit command is registered on the new interpreter
\* ahead of Tcl_Init, and Tcl_Init runs ahead of the registrar.
C16_ExitCommandBeforeInit ==
  /\ Precedes("Tcl_CreateInterp", "CreateObjCommand")
  /\ Precedes("CreateObjCommand", "Tcl_Init")
  /\ Precedes("Tcl_Init", "swig_init")

\* Tcl_Init has just run, on an interpreter that has its exit command.
C16_Witness ==
  /\ pc = "swig_init"
  /\ Ran("CreateObjCommand")
  /\ trace[Len(trace)].step = "Tcl_Init"

\* C19: when exit has run and nothing was prompted for, it ran during
\* bootstrap: the due late steps still run in order, ended is set, control
\* never stands at readline or at the evaluation of a line, and a finished
\* run has loaded the history, saved it and deleted the interpreter with the
\* input unread; no step prompts, and no step clears ended.
C19_ExitDuringBootstrap ==
  /\ []((exitRan /\ prompts = 0) =>
          /\ ended
          /\ pc # "exited" => SelectSeq(StepsRun, IsLate) = LateStepsBefore(pc)
          /\ pc \notin {"readline", "Tcl_Eval", "add_history"}
          /\ pc = "done" =>
               /\ Precedes("load_history", "save_history")
               /\ Precedes("save_history", "Tcl_DeleteInterp")
               /\ Ran("Tcl_DeleteInterp")
               /\ stdin # <<>>)
  /\ [][/\ ended => ended'
        /\ (exitRan /\ prompts = 0) => prompts' = 0]_vars

\* A run in which the -x command ran exit is over: the -f file was still
\* sourced and nothing was prompted for.
C19_Witness ==
  /\ pc = "done"
  /\ exitRan
  /\ prompts = 0
  /\ firstFailed = "none"
  /\ Ran("x_cmd") /\ Ran("f_file")
  /\ stdin # <<>>

\* C17 (as claimed): after save_history the file holds exactly the entries
\* of the in-memory history, one per line.
C17_SaveOverwrites ==
  pc \in {"Tcl_DeleteInterp", "Tcl_Finalize", "done"} =>
    histfile.data = print_lines(history)

\* The lines of a file, each without its newline; the last one may lack it.
RECURSIVE TextLines(_)
TextLines(f) ==
  IF f = <<>> THEN <<>>
  ELSE LET ends == {k \in 1..Len(f) : f[k] = NL}
       IN  IF ends = {} THEN <<f>>
           ELSE LET k == CHOOSE x \in ends : \A y \in ends : x <= y
                IN  <<SubSeq(f, 1, k - 1)>> \o TextLines(SubSeq(f, k + 1, Len(f)))

NonEmpty(line) == line # <<>>

\* C18 (as claimed): right after load_history the history holds the
\* non-empty lines of the file, in order, each without its newline and
\* otherwise whole.
C18_LoadStripsNewlineOnly ==
  (pc = "while" /\ prompts = 0) =>
    history = SelectSeq(TextLines(histfile.data), NonEmpty)

\* The decimal digit of n in 0..9.
DigitChar(n) == CHOOSE c \in Digits : DigitValue(c) = n

\* A byte as a zero-padded 3-digit decimal.
Encode3(b) ==
  <<DigitChar(b \div 100), DigitChar((b \div 10) % 10), DigitChar(b % 10)>>

RECURSIVE ReEncode(_)
ReEncode(bytes) ==
  IF bytes = <<>> THEN <<>> ELSE Encode3(Head(bytes)) \o ReEncode(Tail(bytes))

\* The fragments the outer loop has gone through.
Decoded == SubSeq(inits, 1, frag - 1)

\* C15: while and after evalTclInit decodes, the buffer holds one byte in
\* 0..255 for every 3-character slice of the fragments gone through, and
\* writing each byte as a zero-padded 3-digit decimal gives back those
\* fragments, one after the other; when the sentinel is reached all the
\* fragments have been gone through, so the buffer depends on the fragments
\* alone.
C15_DecodeRoundTrip ==
  dpc # "idle" =>
    /\ \A i \in 1..Len(unencoded) : unencoded[i] \in 0..255
    /\ 3 * Len(unencoded) = Len(Flatten(Decoded))
    /\ ReEncode(unencoded) = Flatten(Decoded)
    /\ dpc = "decoded" => Decoded = inits

\* Two fragments of two slices each have been decoded up to the sentinel.
C15_Witness ==
  /\ dpc = "decoded"
  /\ Len(inits) = 2
  /\ Len(unencoded) = 4
  /\ unencoded[1] # unencoded[2]

====
